---------------------------- MODULE Spec2Model ----------------------------
(***************************************************************************)
(* Version 1 (time based) UUIDs: src/src/v1.rs.                            *)
(*                                                                         *)
(* Fixed-width unsigned integers are sequences of hexadecimal digits, most *)
(* significant digit first: a u64 is 16 digits, a u32 is 8, a u16 is 4, a  *)
(* u8 is 2, and a Uuid is the 32 digits of its 16 bytes.  TLC's own        *)
(* integers are 32 bits wide, so 64-bit arithmetic is done digit by digit, *)
(* which also keeps the width of every intermediate result explicit.       *)
(***************************************************************************)
EXTENDS Integers, Sequences, FiniteSets, TLC

VARIABLES
    overflow_checks, \* the build: TRUE with overflow checks (debug), FALSE without
    count,           \* Context.count, a usize
    ctx0,            \* the u16 given to Context::new
    calls,           \* how many times the counter source has been invoked
    tpc, fetched, ret, \* per thread: position, fetch_add's result, the u16 returned
    pc,              \* the sequential caller's position
    stamp, src,       \* its Timestamp and the constructor call that made it
    uuid, made,      \* its Result<Uuid, Error> and the call that made it
    parsed,          \* what to_timestamp returned for uuid
    rfc, unix, unix_nanos, \* what to_rfc4122, to_unix, to_unix_nanos returned for stamp
    first            \* the identifier the first call of a run generated

vars == <<overflow_checks, count, ctx0, calls, tpc, fetched, ret, pc, stamp, src,
          uuid, made, parsed, rfc, unix, unix_nanos, first>>
tvars == <<tpc, fetched, ret>>
cvars == <<pc, stamp, src, uuid, made, parsed, rfc, unix, unix_nanos>>

-----------------------------------------------------------------------------
(* Digit sequences                                                         *)

Zeros(w) == [i \in 1..w |-> 0]

\* The w-digit value of the natural number n (n < 2^31), truncated to w digits.
Hx(n, w) == [i \in 1..w |-> IF w - i > 7 THEN 0 ELSE (n \div 16 ^ (w - i)) % 16]

\* u64::from(x), u16::from(x): zero extension to w digits.
Ext(d, w) == Zeros(w - Len(d)) \o d

\* `x as uN`: the low w digits.
Low(d, w) == SubSeq(d, Len(d) - w + 1, Len(d))

IsZero(d) == \A i \in 1..Len(d) : d[i] = 0

\* a < b for digit sequences of one length.
Less(a, b) ==
    \E i \in 1..Len(a) : a[i] < b[i] /\ \A j \in 1..(i - 1) : a[j] = b[j]

\* Carry propagation over the digit positions i, i-1, ..., 1 of v.
RECURSIVE Carry(_, _, _)
Carry(v, i, c) ==
    IF i = 0 THEN << >>
    ELSE Append(Carry(v, i - 1, (v[i] + c) \div 16), (v[i] + c) % 16)

\* a + b exactly: one digit more than the operands.
AddC(a, b) ==
    LET x == Ext(a, Len(a) + 1)
        y == Ext(b, Len(a) + 1)
    IN  Carry([i \in 1..Len(x) |-> x[i] + y[i]], Len(x), 0)

\* a * k exactly, for a factor k < 16^7: seven digits more than a.
MulC(a, k) ==
    LET x == Ext(a, Len(a) + 7)
    IN  Carry([i \in 1..Len(x) |-> x[i] * k], Len(x), 0)

\* a - b modulo 16^Len(a) (two's complement wrap when a < b).
RECURSIVE Borrow(_, _, _, _)
Borrow(a, b, i, c) ==
    IF i = 0 THEN << >>
    ELSE LET t == a[i] - b[i] - c
         IN  Append(Borrow(a, b, i - 1, IF t < 0 THEN 1 ELSE 0), (t + 16) % 16)

SubW(a, b) == Borrow(a, b, Len(a), 0)

\* Long division of the first i digits of a by d (d < 2^27): quotient, remainder.
RECURSIVE DivStep(_, _, _)
DivStep(a, d, i) ==
    IF i = 0 THEN [q |-> << >>, r |-> 0]
    ELSE LET p == DivStep(a, d, i - 1)
             t == p.r * 16 + a[i]
         IN  [q |-> Append(p.q, t \div d), r |-> t % d]

Div(a, d) == DivStep(a, d, Len(a)).q
Rem(a, d) == DivStep(a, d, Len(a)).r

\* Bitwise operations on one hexadecimal digit and on digit sequences.
AndTable ==
    [x \in 0..15 |-> [y \in 0..15 |->
        ((x \div 8) % 2) * ((y \div 8) % 2) * 8 + ((x \div 4) % 2) * ((y \div 4) % 2) * 4
        + ((x \div 2) % 2) * ((y \div 2) % 2) * 2 + (x % 2) * (y % 2)]]

BitAnd4(x, y) == AndTable[x][y]

And(a, b) == [i \in 1..Len(a) |-> BitAnd4(a[i], b[i])]
Or(a, b) == [i \in 1..Len(a) |-> a[i] + b[i] - BitAnd4(a[i], b[i])]

\* x >> 4k and x << 4k at the width of x (the bits shifted out are dropped).
Shr(d, k) == Zeros(k) \o SubSeq(d, 1, Len(d) - k)
Shl(d, k) == SubSeq(d, k + 1, Len(d)) \o Zeros(k)

-----------------------------------------------------------------------------
(* Rust integer arithmetic.  An overflowing +, - or * panics when the      *)
(* build has overflow checks (the debug profile) and wraps otherwise (the  *)
(* release profile): each operator returns the wrapped value v and whether *)
(* the exact result was out of range, o.                                    *)

U64Add(a, b) == LET r == AddC(a, b) IN [v |-> Low(r, 16), o |-> r[1] # 0]
U64Mul(a, k) == LET r == MulC(a, k) IN [v |-> Low(r, 16), o |-> ~IsZero(SubSeq(r, 1, 7))]
U64Sub(a, b) == [v |-> SubW(a, b), o |-> Less(a, b)]
U32Mul(a, k) == LET r == MulC(a, k) IN [v |-> Low(r, 8), o |-> ~IsZero(SubSeq(r, 1, 7))]

\* What a call leaves in the caller's variable: nothing yet, a value, a panic.
Unset == [st |-> "unset"]
Panic == [st |-> "panic"]
Ret(v) == [st |-> "ret", val |-> v]

-----------------------------------------------------------------------------
(* Timestamp and the clock sequence                                        *)

UUID_TICKS_BETWEEN_EPOCHS == <<0,1,11,2, 1,13,13,2, 1,3,8,1, 4,0,0,0>>

from_rfc4122(ticks, counter) == [ticks |-> ticks, counter |-> counter]

\* Context::new(count): the u16 widened to the usize of a 64-bit target.
Context_new(c) == Ext(c, 16)

\* AtomicUsize::fetch_add(1, SeqCst): one indivisible step that returns the
\* previous value and wraps around at the width of usize.
USIZE_1 == Hx(1, 16)

\* A lost update: the previous value is returned and the sum is never stored.
fetch_add_lost(cnt) == [prev |-> cnt, count |-> cnt]

fetch_add(cnt) == [prev |-> cnt, count |-> Low(AddC(cnt, USIZE_1), 16)]

\* (prev & 0xffff) as u16
USIZE_FFFF == Hx(65535, 16)
mask_u16(prev) == Low(And(prev, USIZE_FFFF), 4)

\* Context::generate_sequence(_, _): the time arguments are ignored.
generate_sequence(cnt, seconds, subsec_nanos) ==
    LET f == fetch_add(cnt)
    IN  [ret |-> mask_u16(f.prev), count |-> f.count]

\* UUID_TICKS_BETWEEN_EPOCHS + seconds * 10_000_000 + u64::from(subsec_nanos) / 100
unix_ticks(seconds, subsec_nanos) ==
    LET m == U64Mul(seconds, 10000000)
        a == U64Add(UUID_TICKS_BETWEEN_EPOCHS, m.v)
        b == U64Add(a.v, Div(Ext(subsec_nanos, 16), 100))
    IN  [v |-> b.v, o |-> m.o \/ a.o \/ b.o]

\* Timestamp::from_unix(&context, seconds, subsec_nanos) on a context whose
\* counter holds cnt: the value returned (or the panic) and the counter after.
from_unix(checks, cnt, seconds, subsec_nanos) ==
    LET g == generate_sequence(cnt, seconds, subsec_nanos)
        t == unix_ticks(seconds, subsec_nanos)
    IN  [ret   |-> IF t.o /\ checks THEN Panic
                   ELSE Ret([ticks |-> t.v, counter |-> g.ret]),
         count |-> g.count]

to_rfc4122(ts) == <<ts.ticks, ts.counter>>

to_unix(checks, ts) ==
    LET d == U64Sub(ts.ticks, UUID_TICKS_BETWEEN_EPOCHS)
        n == U32Mul(Hx(Rem(d.v, 10000000), 8), 100)
    IN  IF (d.o \/ n.o) /\ checks THEN Panic
        ELSE Ret(<<Div(d.v, 10000000), n.v>>)

to_unix_nanos(checks, ts) ==
    LET d == U64Sub(ts.ticks, UUID_TICKS_BETWEEN_EPOCHS)
        n == U64Mul(d.v, 100)
    IN  IF (d.o \/ n.o) /\ checks THEN Panic ELSE Ret(n.v)

-----------------------------------------------------------------------------
(* The 128-bit value type the generator builds on (crate::Uuid): a Uuid is *)
(* the 32 hexadecimal digits of its 16 bytes in network order.             *)

\* self.as_bytes()[i], i = 0..15
as_bytes(u, i) == SubSeq(u, 2 * i + 1, 2 * i + 2)

RECURSIVE Flatten(_)
Flatten(bytes) == IF bytes = << >> THEN << >> ELSE Head(bytes) \o Flatten(Tail(bytes))

\* Uuid::from_fields(d1, d2, d3, d4): the three integers big-endian, then d4.
from_fields(d1, d2, d3, d4) ==
    IF Len(d4) # 8 THEN [ok |-> FALSE, expected |-> 8, actual |-> Len(d4)]
    ELSE [ok |-> TRUE, uuid |-> d1 \o d2 \o d3 \o Flatten(d4)]

\* Uuid::get_version(): the high nibble of byte 6; 1 is Version::Mac.
get_version(u) ==
    LET v == as_bytes(u, 6)[1]
    IN  IF v = 0 /\ IsZero(u) THEN [some |-> TRUE, v |-> "Nil"]
        ELSE IF v = 1 THEN [some |-> TRUE, v |-> "Mac"]
        ELSE IF v = 2 THEN [some |-> TRUE, v |-> "Dce"]
        ELSE IF v = 3 THEN [some |-> TRUE, v |-> "Md5"]
        ELSE IF v = 4 THEN [some |-> TRUE, v |-> "Random"]
        ELSE IF v = 5 THEN [some |-> TRUE, v |-> "Sha1"]
        ELSE [some |-> FALSE]

\* Uuid::get_variant(): the top bits of byte 8.
get_variant(u) ==
    LET b == as_bytes(u, 8)[1]
    IN  IF b < 8 THEN "NCS"
        ELSE IF b < 12 THEN "RFC4122"
        ELSE IF b < 14 THEN "Microsoft"
        ELSE "Future"

-----------------------------------------------------------------------------
(* Assembly and disassembly                                                *)

NODE_ID_LEN == 6

\* The masks and markers of the two functions below, at the width of their use.
U64_FFFF_FFFF == <<0,0,0,0, 0,0,0,0, 15,15,15,15, 15,15,15,15>>
U64_FFFF == Hx(65535, 16)
U64_0FFF == Hx(4095, 16)
U16_1 == Hx(1, 4)
U16_3F00 == Hx(16128, 4)
U16_00FF == Hx(255, 4)
U8_80 == Hx(128, 2)
U8_0F == Hx(15, 2)
U8_3F == Hx(63, 2)

\* new_v1 rejecting only the node IDs that are too short.
new_v1_short_only(ts, node_id) ==
    IF Len(node_id) < NODE_ID_LEN
    THEN [ok |-> FALSE, expected |-> NODE_ID_LEN, actual |-> Len(node_id)]
    ELSE LET time_low  == Low(And(ts.ticks, U64_FFFF_FFFF), 8)
             time_mid  == Low(And(Shr(ts.ticks, 8), U64_FFFF), 4)
             time_high_and_version ==
                 Or(Low(And(Shr(ts.ticks, 12), U64_0FFF), 4), Shl(U16_1, 3))
             d4_0 == Or(Low(Shr(And(ts.counter, U16_3F00), 2), 2), U8_80)
             d4_1 == Low(And(ts.counter, U16_00FF), 2)
         IN  from_fields(time_low, time_mid, time_high_and_version,
                         <<d4_0, d4_1>> \o node_id)

\* new_v1 without the masks that keep the time and the counter out of the
\* version and variant bits.
new_v1_unmasked(ts, node_id) ==
    IF Len(node_id) # NODE_ID_LEN
    THEN [ok |-> FALSE, expected |-> NODE_ID_LEN, actual |-> Len(node_id)]
    ELSE LET time_low  == Low(And(ts.ticks, U64_FFFF_FFFF), 8)
             time_mid  == Low(And(Shr(ts.ticks, 8), U64_FFFF), 4)
             time_high_and_version ==
                 Or(Low(Shr(ts.ticks, 12), 4), Shl(U16_1, 3))
             d4_0 == Or(Low(Shr(ts.counter, 2), 2), U8_80)
             d4_1 == Low(And(ts.counter, U16_00FF), 2)
         IN  from_fields(time_low, time_mid, time_high_and_version,
                         <<d4_0, d4_1>> \o node_id)

\* new_v1 that never writes d4[1], the low byte of the clock sequence.
new_v1_no_low_byte(ts, node_id) ==
    IF Len(node_id) # NODE_ID_LEN
    THEN [ok |-> FALSE, expected |-> NODE_ID_LEN, actual |-> Len(node_id)]
    ELSE LET time_low  == Low(And(ts.ticks, U64_FFFF_FFFF), 8)
             time_mid  == Low(And(Shr(ts.ticks, 8), U64_FFFF), 4)
             time_high_and_version ==
                 Or(Low(And(Shr(ts.ticks, 12), U64_0FFF), 4), Shl(U16_1, 3))
             d4_0 == Or(Low(Shr(And(ts.counter, U16_3F00), 2), 2), U8_80)
             d4_1 == Hx(0, 2)
         IN  from_fields(time_low, time_mid, time_high_and_version,
                         <<d4_0, d4_1>> \o node_id)

\* Uuid::new_v1(ts, node_id); node_id is a sequence of bytes.
new_v1(ts, node_id) ==
    IF Len(node_id) # NODE_ID_LEN
    THEN [ok |-> FALSE, expected |-> NODE_ID_LEN, actual |-> Len(node_id)]
    ELSE LET time_low  == Low(And(ts.ticks, U64_FFFF_FFFF), 8)
             time_mid  == Low(And(Shr(ts.ticks, 8), U64_FFFF), 4)
             time_high_and_version ==
                 Or(Low(And(Shr(ts.ticks, 12), U64_0FFF), 4), Shl(U16_1, 3))
             d4_0 == Or(Low(Shr(And(ts.counter, U16_3F00), 2), 2), U8_80)
             d4_1 == Low(And(ts.counter, U16_00FF), 2)
         IN  from_fields(time_low, time_mid, time_high_and_version,
                         <<d4_0, d4_1>> \o node_id)

\* to_timestamp reading the counter's high byte through 0x0F instead of 0x3F.
to_timestamp_narrow(u) ==
    LET ver == get_version(u)
    IN  IF (IF ver.some THEN ver.v # "Mac" ELSE TRUE)
        THEN [some |-> FALSE]
        ELSE LET b(i) == as_bytes(u, i)
                 u64(x) == Ext(x, 16)
                 u16(x) == Ext(x, 4)
                 ticks ==
                     Or(Shl(u64(And(b(6), U8_0F)), 14),
                     Or(Shl(u64(b(7)), 12),
                     Or(Shl(u64(b(4)), 10),
                     Or(Shl(u64(b(5)), 8),
                     Or(Shl(u64(b(0)), 6),
                     Or(Shl(u64(b(1)), 4),
                     Or(Shl(u64(b(2)), 2), u64(b(3)))))))))
                 counter == Or(Shl(u16(And(b(8), U8_0F)), 2), u16(b(9)))
             IN  [some |-> TRUE, val |-> from_rfc4122(ticks, counter)]

\* to_timestamp with unwrap_or(false): an unrecognised version is parsed.
to_timestamp_unknown(u) ==
    LET ver == get_version(u)
    IN  IF (IF ver.some THEN ver.v # "Mac" ELSE FALSE)
        THEN [some |-> FALSE]
        ELSE LET b(i) == as_bytes(u, i)
                 u64(x) == Ext(x, 16)
                 u16(x) == Ext(x, 4)
                 ticks ==
                     Or(Shl(u64(And(b(6), U8_0F)), 14),
                     Or(Shl(u64(b(7)), 12),
                     Or(Shl(u64(b(4)), 10),
                     Or(Shl(u64(b(5)), 8),
                     Or(Shl(u64(b(0)), 6),
                     Or(Shl(u64(b(1)), 4),
                     Or(Shl(u64(b(2)), 2), u64(b(3)))))))))
                 counter == Or(Shl(u16(And(b(8), U8_3F)), 2), u16(b(9)))
             IN  [some |-> TRUE, val |-> from_rfc4122(ticks, counter)]

\* Uuid::to_timestamp()
to_timestamp(u) ==
    LET ver == get_version(u)
    IN  IF (IF ver.some THEN ver.v # "Mac" ELSE TRUE)
        THEN [some |-> FALSE]
        ELSE LET b(i) == as_bytes(u, i)
                 u64(x) == Ext(x, 16)
                 u16(x) == Ext(x, 4)
                 ticks ==
                     Or(Shl(u64(And(b(6), U8_0F)), 14),
                     Or(Shl(u64(b(7)), 12),
                     Or(Shl(u64(b(4)), 10),
                     Or(Shl(u64(b(5)), 8),
                     Or(Shl(u64(b(0)), 6),
                     Or(Shl(u64(b(1)), 4),
                     Or(Shl(u64(b(2)), 2), u64(b(3)))))))))
                 counter == Or(Shl(u16(And(b(8), U8_3F)), 2), u16(b(9)))
             IN  [some |-> TRUE, val |-> from_rfc4122(ticks, counter)]

-----------------------------------------------------------------------------
(* Bounds and the inputs the calls are made with                           *)

NumThreads == 3
MaxCalls == 3
MaxGen == 16385

Threads == 1..NumThreads

\* Context::new(C): C near 0 and near the u16 wrap.
InitCounts == {Hx(0, 4), Hx(42, 4), Hx(65535, 4)}

U64_MAX == [i \in 1..16 |-> 15]

\* seconds: 0, the test's value, the last value whose ticks fit in 64 bits,
\* the first whose sum overflows, the last and first around the overflow of the
\* product, u64::MAX.
Seconds ==
    { Hx(0, 16), Hx(1496854535, 16),
      <<0,0,0,0,0, 1,10,10, 10,6,13,6, 0,15,4,10>>,
      <<0,0,0,0,0, 1,10,10, 10,6,13,6, 0,15,4,11>>,
      <<0,0,0,0,0, 1,10,13, 7,15,2,9, 10,11,12,10>>,
      <<0,0,0,0,0, 1,10,13, 7,15,2,9, 10,11,12,11>>,
      U64_MAX }

\* subsec_nanos: multiples of 100 in range, one that is not, u32::MAX.
SubsecNanos ==
    { Hx(0, 8), Hx(1234, 8), Hx(812946000, 8), Hx(999999900, 8),
      [i \in 1..8 |-> 15] }

\* Raw ticks: 0, around the epoch offset, a date of 2017, the last value whose
\* nanoseconds since 1970 fit in 64 bits and the next, 2^60 - 1, more than 60
\* bits, u64::MAX.
RawTicks ==
    { Hx(0, 16), Hx(1497624119, 16),
      SubW(UUID_TICKS_BETWEEN_EPOCHS, Hx(1, 16)),
      UUID_TICKS_BETWEEN_EPOCHS,
      <<0,1,14,7, 4,11,10,2, 2,0,6,1, 6,9,3,4>>,
      <<0,4,4,1, 7,9,15,11, 0,9,4,3, 12,15,5,12>>,
      <<0,4,4,1, 7,9,15,11, 0,9,4,3, 12,15,5,13>>,
      <<0,15,15,15, 15,15,15,15, 15,15,15,15, 15,15,15,15>>,
      <<15,1,2,3, 4,5,6,7, 8,9,10,11, 12,13,14,15>>,
      U64_MAX }

RawCounters == {Hx(0, 4), Hx(16383, 4), Hx(16384, 4), Hx(49374, 4), Hx(65535, 4)}

Bytes(w, n) == [i \in 1..w |-> Hx(n + i - 1, 2)]

\* Node IDs of 0, 5, 6, 6 and 7 bytes.
NodeIds == {<< >>, Bytes(5, 1), Bytes(6, 1), [i \in 1..6 |-> Hx(255, 2)], Bytes(7, 1)}

\* Identifiers not made by new_v1: nil, version 0 but not nil, version 1 with
\* all other bits set, versions 4, 6 and 15.
OtherUuids ==
    { Zeros(32),
      [i \in 1..32 |-> IF i = 13 THEN 0 ELSE 15],
      [i \in 1..32 |-> IF i = 13 THEN 1 ELSE 15],
      [i \in 1..32 |-> IF i = 13 THEN 4 ELSE (i % 16)],
      [i \in 1..32 |-> IF i = 13 THEN 6 ELSE (i % 16)],
      [i \in 1..32 |-> 15] }

-----------------------------------------------------------------------------
(* Threads sharing one Context, each calling generate_sequence once        *)

Init ==
    /\ overflow_checks \in BOOLEAN
    /\ ctx0 \in InitCounts
    /\ count = Context_new(ctx0)
    /\ calls = 0
    /\ tpc = [t \in Threads |-> "start"]
    /\ fetched = [t \in Threads |-> Unset]
    /\ ret = [t \in Threads |-> Unset]
    /\ pc = "start"
    /\ stamp = Unset /\ src = Unset /\ uuid = Unset /\ made = Unset
    /\ parsed = Unset /\ rfc = Unset /\ unix = Unset /\ unix_nanos = Unset
    /\ first = Unset

\* self.count.fetch_add(1, SeqCst)
Fetch(t) ==
    /\ tpc[t] = "start"
    /\ LET f == fetch_add(count)
       IN  /\ count' = f.count
           /\ fetched' = [fetched EXCEPT ![t] = Ret(f.prev)]
    /\ calls' = calls + 1
    /\ tpc' = [tpc EXCEPT ![t] = "fetched"]
    /\ UNCHANGED <<overflow_checks, ctx0, ret, cvars, first>>

\* (... & 0xffff) as u16, returned to the caller
Return(t) ==
    /\ tpc[t] = "fetched"
    /\ ret' = [ret EXCEPT ![t] = Ret(mask_u16(fetched[t].val))]
    /\ tpc' = [tpc EXCEPT ![t] = "done"]
    /\ UNCHANGED <<overflow_checks, count, ctx0, calls, fetched, cvars, first>>

Next == \E t \in Threads : Fetch(t) \/ Return(t)

Spec == Init /\ [][Next]_vars

-----------------------------------------------------------------------------
(* One caller using the whole interface on one Context, block after block  *)
(* as tests::test_new_v1 does.  A block constructs a Timestamp and then    *)
(* either reads it back, converts it to unix time, or assembles an         *)
(* identifier from it and disassembles that; or it disassembles an         *)
(* identifier made elsewhere.  A panic ends the run.                       *)

InitApi ==
    /\ overflow_checks \in BOOLEAN
    /\ ctx0 \in InitCounts
    /\ count = Context_new(ctx0)
    /\ calls = 0
    /\ tpc = << >> /\ fetched = << >> /\ ret = << >>
    /\ pc = "start"
    /\ stamp = Unset /\ src = Unset /\ uuid = Unset /\ made = Unset
    /\ parsed = Unset /\ rfc = Unset /\ unix = Unset /\ unix_nanos = Unset
    /\ first = Unset

After(r, then) == IF r = Panic THEN "panicked" ELSE then

\* let ts = Timestamp::from_unix(&context, seconds, subsec_nanos);
FromUnix(seconds, subsec_nanos) ==
    /\ pc = "start"
    /\ calls < MaxCalls
    /\ LET r == from_unix(overflow_checks, count, seconds, subsec_nanos)
       IN  /\ count' = r.count
           /\ stamp' = r.ret
           /\ pc' = After(r.ret, "ts")
    /\ calls' = calls + 1
    /\ src' = [by |-> "from_unix", seconds |-> seconds, subsec_nanos |-> subsec_nanos]
    /\ UNCHANGED <<overflow_checks, ctx0, tvars, uuid, made, parsed, rfc, unix,
                   unix_nanos, first>>

\* let ts = Timestamp::from_rfc4122(ticks, counter);
FromRfc4122(ticks, counter) ==
    /\ pc = "start"
    /\ stamp' = Ret(from_rfc4122(ticks, counter))
    /\ src' = [by |-> "from_rfc4122"]
    /\ pc' = "ts"
    /\ UNCHANGED <<overflow_checks, count, ctx0, calls, tvars, uuid, made, parsed,
                   rfc, unix, unix_nanos, first>>

\* let uuid = Uuid::new_v1(ts, node_id);
NewV1(node_id) ==
    /\ pc = "ts"
    /\ uuid' = Ret(new_v1(stamp.val, node_id))
    /\ made' = [by |-> "new_v1", node_id |-> node_id]
    /\ pc' = IF uuid'.val.ok THEN "uuid" ELSE "end"
    /\ UNCHANGED <<overflow_checks, count, ctx0, calls, tvars, stamp, src, parsed,
                   rfc, unix, unix_nanos, first>>

\* let uuid = Uuid::from_bytes(b): an identifier that new_v1 did not make.
FromBytes(b) ==
    /\ pc = "start"
    /\ uuid' = Ret([ok |-> TRUE, uuid |-> b])
    /\ made' = [by |-> "from_bytes"]
    /\ pc' = "uuid"
    /\ UNCHANGED <<overflow_checks, count, ctx0, calls, tvars, stamp, src, parsed,
                   rfc, unix, unix_nanos, first>>

\* uuid.unwrap().to_timestamp()
ToTimestamp ==
    /\ pc = "uuid"
    /\ parsed' = Ret(to_timestamp(uuid.val.uuid))
    /\ pc' = "end"
    /\ UNCHANGED <<overflow_checks, count, ctx0, calls, tvars, stamp, src, uuid,
                   made, rfc, unix, unix_nanos, first>>

\* ts.to_rfc4122()
ToRfc4122 ==
    /\ pc = "ts"
    /\ rfc' = Ret(to_rfc4122(stamp.val))
    /\ pc' = "end"
    /\ UNCHANGED <<overflow_checks, count, ctx0, calls, tvars, stamp, src, uuid,
                   made, parsed, unix, unix_nanos, first>>

\* ts.to_unix()
ToUnix ==
    /\ pc = "ts"
    /\ unix' = to_unix(overflow_checks, stamp.val)
    /\ pc' = After(unix', "unix")
    /\ UNCHANGED <<overflow_checks, count, ctx0, calls, tvars, stamp, src, uuid,
                   made, parsed, rfc, unix_nanos, first>>

\* ts.to_unix_nanos()
ToUnixNanos ==
    /\ pc \in {"ts", "unix"}
    /\ unix_nanos' = to_unix_nanos(overflow_checks, stamp.val)
    /\ pc' = After(unix_nanos', "end")
    /\ UNCHANGED <<overflow_checks, count, ctx0, calls, tvars, stamp, src, uuid,
                   made, parsed, rfc, unix, first>>

\* The block ends and its values go out of scope.
EndBlock ==
    /\ pc \in {"ts", "unix", "uuid", "end"}
    /\ pc' = "start"
    /\ stamp' = Unset /\ src' = Unset /\ uuid' = Unset /\ made' = Unset
    /\ parsed' = Unset /\ rfc' = Unset /\ unix' = Unset /\ unix_nanos' = Unset
    /\ UNCHANGED <<overflow_checks, count, ctx0, calls, tvars, first>>

NextApi ==
    \/ \E s \in Seconds, n \in SubsecNanos : FromUnix(s, n)
    \/ \E t \in RawTicks, c \in RawCounters : FromRfc4122(t, c)
    \/ \E n \in NodeIds : NewV1(n)
    \/ \E b \in OtherUuids : FromBytes(b)
    \/ ToTimestamp
    \/ ToRfc4122
    \/ ToUnix
    \/ ToUnixNanos
    \/ EndBlock

SpecApi == InitApi /\ [][NextApi]_vars

-----------------------------------------------------------------------------
(* One Context and one node ID used to generate identifier after           *)
(* identifier, as both blocks of tests::test_new_v1 do:                    *)
(*     Uuid::new_v1(Timestamp::from_unix(&context, time, fraction), &node) *)
(* The first identifier is kept to compare the later ones with.  No time   *)
(* value used here overflows, so the build makes no difference.            *)

GenCounts == {Hx(0, 4), Hx(65535, 4)}

\* The test's time value and one a second later.
GenTimes ==
    { <<Hx(1496854535, 16), Hx(812946000, 8)>>,
      <<Hx(1496854536, 16), Hx(812946000, 8)>> }

GenNode == Bytes(6, 1)

InitGen ==
    /\ overflow_checks = FALSE
    /\ ctx0 \in GenCounts
    /\ count = Context_new(ctx0)
    /\ calls = 0
    /\ tpc = << >> /\ fetched = << >> /\ ret = << >>
    /\ pc = "start"
    /\ stamp = Unset /\ src = Unset /\ uuid = Unset /\ made = Unset
    /\ parsed = Unset /\ rfc = Unset /\ unix = Unset /\ unix_nanos = Unset
    /\ first = Unset

Generate(seconds, subsec_nanos, node_id) ==
    /\ pc = "start"
    /\ calls < MaxGen
    /\ LET r == from_unix(overflow_checks, count, seconds, subsec_nanos)
       IN  /\ count' = r.count
           /\ pc' = After(r.ret, "start")
           /\ uuid' = IF r.ret = Panic THEN Panic ELSE Ret(new_v1(r.ret.val, node_id))
    /\ calls' = calls + 1
    /\ first' = IF calls = 0 THEN uuid' ELSE first
    /\ UNCHANGED <<overflow_checks, ctx0, tvars, stamp, src, made, parsed, rfc,
                   unix, unix_nanos>>

NextGen == \E t \in GenTimes : Generate(t[1], t[2], GenNode)

SpecGen == InitGen /\ [][NextGen]_vars

-----------------------------------------------------------------------------
(* The properties                                                          *)

\* The natural number a digit sequence of at most 7 digits stands for.
RECURSIVE Val(_)
Val(d) == IF d = << >> THEN 0 ELSE 16 * Val(SubSeq(d, 1, Len(d) - 1)) + d[Len(d)]

\* (C + i) mod 2^16 as a u16
CounterAt(c, i) == Hx((Val(c) + i) % 65536, 4)

SrcUnix == src # Unset /\ src.by = "from_unix"
MadeByNewV1 == made # Unset /\ made.by = "new_v1"
AllDone == \A t \in Threads : tpc[t] = "done"

\* C1: threads that each call generate_sequence once on one shared Context
\* never observe the same pre-increment counter value, return pairwise
\* distinct values, and once all K have returned the values are, as a set,
\* {C, C+1, ..., C+K-1} mod 2^16.
C1_DistinctSequences ==
    /\ \A t, u \in Threads :
           (t # u /\ fetched[t] # Unset /\ fetched[u] # Unset)
               => fetched[t] # fetched[u]
    /\ \A t, u \in Threads :
           (t # u /\ ret[t] # Unset /\ ret[u] # Unset) => ret[t] # ret[u]
    /\ AllDone =>
           {ret[t].val : t \in Threads}
               = {CounterAt(ctx0, i) : i \in 0..(NumThreads - 1)}

\* All threads have returned from a context created at 0xFFFF: the values wrap.
C1_Witness ==
    /\ AllDone
    /\ ctx0 = Hx(65535, 4)
    /\ \E t \in Threads : ret[t].val = Hx(0, 4)

U64_MASK60 == <<0,15,15,15, 15,15,15,15, 15,15,15,15, 15,15,15,15>>
U16_MASK14 == Hx(16383, 4)

\* C2: new_v1 succeeds for every Timestamp and every 6-byte node ID, and
\* to_timestamp of the result is Some(from_rfc4122(ticks & (2^60 - 1),
\* counter & (2^14 - 1))); ticks below 2^60 and a counter below 2^14 come
\* back exactly.
C2_RoundTrip ==
    /\ (MadeByNewV1 /\ Len(made.node_id) = 6) => uuid.val.ok
    /\ (MadeByNewV1 /\ parsed # Unset) =>
           /\ parsed = Ret([some |-> TRUE,
                            val |-> from_rfc4122(And(stamp.val.ticks, U64_MASK60),
                                                 And(stamp.val.counter, U16_MASK14))])
           /\ (stamp.val.ticks[1] = 0 /\ stamp.val.counter[1] < 4)
                  => parsed.val.val = stamp.val

\* An identifier assembled from ticks above 60 bits and a counter above 14
\* bits has been disassembled.
C2_Witness ==
    /\ MadeByNewV1 /\ parsed # Unset
    /\ stamp.val.ticks[1] # 0
    /\ stamp.val.counter[1] >= 4

\* C3: new_v1 returns the length-mismatch error carrying expected = 6 and
\* actual = node_id.len(), and no identifier, for every node_id whose length
\* is not 6 and any Timestamp, and Ok for every node_id of length 6.
C3_NodeIdLength ==
    MadeByNewV1 =>
        IF Len(made.node_id) # 6
        THEN uuid = Ret([ok |-> FALSE, expected |-> 6, actual |-> Len(made.node_id)])
        ELSE uuid.val.ok /\ Len(uuid.val.uuid) = 32

\* new_v1 has refused a node ID of 7 bytes.
C3_Witness ==
    /\ MadeByNewV1
    /\ Len(made.node_id) = 7
    /\ ~uuid.val.ok

SameTimeFields(a, b) == SubSeq(a, 1, 16) = SubSeq(b, 1, 16)

NANOS_PER_SEC == Hx(1000000000, 8)

ValidNanos(n) == Less(n, NANOS_PER_SEC) /\ Rem(n, 100) = 0

\* C5: for every seconds value s and every subsec_nanos n in [0, 999_999_999]
\* that is a multiple of 100, from_unix(ctx, s, n).to_unix() == (s, n).
C5_UnixRoundTrip ==
    (SrcUnix /\ ValidNanos(src.subsec_nanos)) =>
        /\ stamp # Panic
        /\ unix # Unset => unix = Ret(<<src.seconds, src.subsec_nanos>>)

\* C6: every identifier new_v1 returns carries version 0001 in the high
\* nibble of byte 6 and variant 10 in the top two bits of byte 8, whatever the
\* ticks and the counter: get_version() is Some(Version::Mac) and
\* get_variant() is RFC4122.
C6_VersionAndVariant ==
    (MadeByNewV1 /\ uuid.val.ok) =>
        /\ as_bytes(uuid.val.uuid, 6)[1] = 1
        /\ as_bytes(uuid.val.uuid, 8)[1] \div 4 = 2
        /\ get_version(uuid.val.uuid) = [some |-> TRUE, v |-> "Mac"]
        /\ get_variant(uuid.val.uuid) = "RFC4122"

\* An identifier has been assembled from ticks and a counter with every bit set.
C6_Witness ==
    /\ MadeByNewV1 /\ uuid.val.ok
    /\ stamp.val.ticks = U64_MAX
    /\ stamp.val.counter = Hx(65535, 4)

\* C7: to_timestamp never fails; it returns None for every identifier whose
\* version marker is not 0001 and Some(timestamp) for every one whose marker
\* is 0001.
C7_NoneUnlessVersion1 ==
    parsed # Unset =>
        /\ parsed.st = "ret"
        /\ parsed.val.some <=> as_bytes(uuid.val.uuid, 6)[1] = 1
        /\ pc # "panicked"

\* to_timestamp has returned None for an identifier of unrecognised version 15.
C7_Witness ==
    /\ parsed # Unset
    /\ as_bytes(uuid.val.uuid, 6)[1] = 15
    /\ ~parsed.val.some

\* C8: every Timestamp from_unix produces, for any u64 seconds and any u32
\* subsec_nanos, has ticks >= the epoch offset 0x01B21DD213814000.
C8_TicksAtLeastEpochOffset ==
    (SrcUnix /\ stamp.st = "ret")
        => ~Less(stamp.val.ticks, UUID_TICKS_BETWEEN_EPOCHS)

\* secs * 1_000_000_000 + nanos, exactly (31 digits).
ExactNanos(secs, nanos) == AddC(MulC(MulC(secs, 100000), 10000), Ext(nanos, 30))

\* C9: for every Timestamp whose ticks are >= the epoch offset, if to_unix()
\* is (secs, nanos) then to_unix_nanos() is secs * 1_000_000_000 + nanos.
C9_SameDuration ==
    ( /\ stamp # Unset /\ stamp.st = "ret"
      /\ ~Less(stamp.val.ticks, UUID_TICKS_BETWEEN_EPOCHS)
      /\ unix.st = "ret"
      /\ unix_nanos # Unset )
        => /\ unix_nanos.st = "ret"
           /\ Ext(unix_nanos.val, 31) = ExactNanos(unix.val[1], unix.val[2])

\* C10: every from_unix call invokes the counter source exactly once and
\* stores what it returned: the i-th call (i = 0, 1, ...) on a context created
\* with Context::new(C) yields counter (C + i) mod 2^16 whatever time is
\* passed, and no other operation changes the context's counter.
C10_CounterOfEachCall ==
    /\ count = Low(AddC(Context_new(ctx0), Hx(calls, 16)), 16)
    /\ SrcUnix =>
           /\ stamp.st = "ret"
           /\ stamp.val.counter = CounterAt(ctx0, calls - 1)

=============================================================================
